---- MODULE Spec2Model ----
(***************************************************************************)
(* ThePowerSite replacement API (main.py, schemas.py): the request         *)
(* handlers as a state machine over the document store.                    *)
(*                                                                         *)
(* The store is the collections product, brand, category, sparepart,       *)
(* review and order, each a sequence of documents in store-natural         *)
(* (insertion) order.  Prices are in pence (599.99 -> 59999).  Titles and  *)
(* search queries are sequences of one-character strings, so that the      *)
(* case-insensitive title match is computed character by character.        *)
(***************************************************************************)
EXTENDS Integers, Sequences, FiniteSets

VARIABLES
    db,         \* "None" (store unavailable) or "ok": database.db
    started,    \* whether the startup hook seed_data has run
    product,    \* db["product"]
    brand,      \* db["brand"]
    category,   \* db["category"]
    sparepart,  \* db["sparepart"]
    review,     \* db["review"]
    order,      \* db["order"]
    clock,      \* the store clock stamping created_at
    pc,         \* per worker: the position inside the handler it runs
    loc,        \* per worker: the handler's local variables
    resp,       \* per worker: the response of the last request it completed
    op,         \* the handler (or "startup"/"external") that took the last step
    touched     \* whether the last step called into the store

vars == <<db, started, product, brand, category, sparepart, review, order,
          clock, pc, loc, resp, op, touched>>

store == <<product, brand, category, sparepart, review, order>>

---------------------------------------------------------------------------
(* Bounds of the model *)

MaxReviews == 3
MaxOrders == 2
MaxPage == 3

---------------------------------------------------------------------------
(* Values *)

None == "None"

\* the threads of the pool that run the handlers
Workers == {"w1", "w2"}

\* the worker that runs the handlers of more than one store call
FirstWorker == {"w1"}

Min(a, b) == IF a < b THEN a ELSE b

Abs(n) == IF n < 0 THEN 0 - n ELSE n

Range(s) == {s[i] : i \in 1..Len(s)}

---------------------------------------------------------------------------
(* Characters: str.lower as the "i" option of $regex folds case *)

UpperChars == <<"A","B","C","D","E","F","G","H","I","J","K","L","M",
                "N","O","P","Q","R","S","T","U","V","W","X","Y","Z">>

LowerChars == <<"a","b","c","d","e","f","g","h","i","j","k","l","m",
                "n","o","p","q","r","s","t","u","v","w","x","y","z">>

Lower(c) ==
    IF \E i \in 1..Len(UpperChars) : UpperChars[i] = c
    THEN LowerChars[CHOOSE i \in 1..Len(UpperChars) : UpperChars[i] = c]
    ELSE c

LowerSeq(s) == [i \in 1..Len(s) |-> Lower(s[i])]

\* s occurs in t as a contiguous run of characters
Contains(t, s) ==
    \E k \in 0..(Len(t) - Len(s)) : \A i \in 1..Len(s) : t[k + i] = s[i]

\* {"$regex": q, "$options": "i"} for a query of literal characters
RegexMatchI(t, q) == Contains(LowerSeq(t), LowerSeq(q))

---------------------------------------------------------------------------
(* Documents *)

\* titles, abbreviated: "Hyundai 2000W Inverter Generator" and
\* "JCB 18V Brushless Impact Driver" of seed_data, and a "Hyundai GENERATOR Cable"
TitleHY == <<"H","y"," ","G","e","n">>

TitleJCB == <<"J","C","B"," ","D","r">>

TitleCable == <<"H","y"," ","G","E","N"," ","C","b">>

\* the two demo products of seed_data
ProductHY ==
    [sku |-> "HY2000i", title |-> TitleHY, brand |-> "hyundai",
     category |-> "generators", power_source |-> "petrol",
     price |-> [inc_vat |-> 59999, ex_vat |-> 49999],
     media |-> [images |-> <<"photo-1547234935">>], rating_count |-> 124,
     accessories |-> <<"HYCABLE1">>, related_skus |-> <<"HY3000i">>]

ProductJCB ==
    [sku |-> "JCB-18V-IMPACT", title |-> TitleJCB, brand |-> "jcb",
     category |-> "chainsaws", power_source |-> "battery",
     price |-> [inc_vat |-> 12999, ex_vat |-> 10833],
     media |-> [images |-> <<"photo-1581093588401">>], rating_count |-> 54,
     accessories |-> <<"JCB-18V-BAT", "JCB-FAST-CHARGER">>,
     related_skus |-> <<"JCB-18V-DRILL">>]

\* a Product (schemas.py) already in a store that was populated before startup:
\* no power source, no image, priced 499.00
ProductCable ==
    [sku |-> "HYCABLE1", title |-> TitleCable, brand |-> "hyundai",
     category |-> "generators", power_source |-> None,
     price |-> [inc_vat |-> 49900, ex_vat |-> 41583],
     media |-> [images |-> <<>>], rating_count |-> 0,
     accessories |-> <<"HY2000i">>,
     related_skus |-> <<"HY2000i", "JCB-18V-IMPACT">>]

DemoProducts == <<ProductHY, ProductJCB>>

DemoBrands ==
    <<[name |-> "Hyundai Power Products", slug |-> "hyundai", color |-> "#1e40af"],
      [name |-> "JCB Tools", slug |-> "jcb", color |-> "#ffcc00"]>>

DemoCategories ==
    <<[name |-> "Generators", slug |-> "generators", parent_slug |-> None],
      [name |-> "Pressure Washers", slug |-> "pressure-washers", parent_slug |-> None],
      [name |-> "Chainsaws", slug |-> "chainsaws", parent_slug |-> None]>>

\* a brand document left by an earlier run, which the seeding upsert overwrites
StaleBrand == [name |-> "Hyundai", slug |-> "hyundai", color |-> None]

SparePlug ==
    [sku |-> "HY-PLUG", title |-> <<"P","l","u","g">>,
     compatible_skus |-> <<"HY2000i">>,
     price |-> [inc_vat |-> 599, ex_vat |-> 499]]

SpareChain ==
    [sku |-> "JCB-CHAIN", title |-> <<"C","h","n">>,
     compatible_skus |-> <<>>,
     price |-> [inc_vat |-> 1999, ex_vat |-> 1666]]

\* a stored review: the Review fields after post_review, as create_document stores it
StoredReview(sku, author, t) ==
    [_id |-> t, sku |-> sku, title |-> "t", body |-> "b", rating |-> 5,
     author |-> author, created_at |-> t]

---------------------------------------------------------------------------
(* The store's query language, as the handlers use it *)

\* the value of a (dotted) field of a document
Field(d, f) ==
    CASE f = "sku" -> d.sku
      [] f = "brand" -> d.brand
      [] f = "category" -> d.category
      [] f = "power_source" -> d.power_source
      [] f = "price.inc_vat" -> d.price.inc_vat
      [] f = "title" -> d.title
      [] f = "compatible_skus" -> d.compatible_skus

\* one condition <<field, operator, operand>> of a query document
Holds(d, c) ==
    CASE c[2] = "eq" -> Field(d, c[1]) = c[3]
      [] c[2] = "gte" -> Field(d, c[1]) >= c[3]
      [] c[2] = "lte" -> Field(d, c[1]) <= c[3]
      [] c[2] = "in" -> Field(d, c[1]) \in Range(c[3])
      [] c[2] = "regex_i" -> RegexMatchI(Field(d, c[1]), c[3])
      [] c[2] = "has" -> c[3] \in Range(Field(d, c[1]))

\* a query document is the set of its conditions; {} matches everything
Matches(d, query) == \A c \in query : Holds(d, c)

Find(coll, query) == SelectSeq(coll, LAMBDA d : Matches(d, query))

CountDocuments(coll, query) == Len(Find(coll, query))

\* Cursor.skip(n), n >= 0 (a negative n raises ValueError)
Skip(s, n) == SubSeq(s, n + 1, Len(s))

\* Cursor.limit(n): 0 is "no limit"; a negative n is a single batch of |n|
Limit(s, n) == IF n = 0 THEN s ELSE SubSeq(s, 1, Min(Abs(n), Len(s)))


RECURSIVE InsertDesc(_, _)
\* d put into s, which is in descending created_at order, before the first older one
InsertDesc(s, d) ==
    IF s = <<>> THEN <<d>>
    ELSE IF Head(s).created_at >= d.created_at
         THEN <<Head(s)>> \o InsertDesc(Tail(s), d)
         ELSE <<d>> \o s

RECURSIVE SortDesc(_)
\* Cursor.sort("created_at", -1)
SortDesc(s) ==
    IF s = <<>> THEN <<>>
    ELSE InsertDesc(SortDesc(SubSeq(s, 1, Len(s) - 1)), s[Len(s)])

\* update_one({"slug": slug}, {"$set": doc}, upsert=True)
Upsert(coll, doc) ==
    IF \E i \in 1..Len(coll) : coll[i].slug = doc.slug
    THEN LET i == CHOOSE j \in 1..Len(coll) :
                      /\ coll[j].slug = doc.slug
                      /\ \A k \in 1..(j - 1) : coll[k].slug # doc.slug
         IN [coll EXCEPT ![i] = doc]
    ELSE Append(coll, doc)

\* the {"_id": 0, "sku": 1, "title": 1, "price": 1, "media": 1} projection
Summary(d) == [sku |-> d.sku, title |-> d.title, price |-> d.price, media |-> d.media]

SummaryOf(s) == [i \in 1..Len(s) |-> Summary(s[i])]

\* a non-empty str is truthy; None and "" are not
Truthy(x) == x # None /\ x # ""

---------------------------------------------------------------------------
(* Responses *)

NoBody == [kind |-> "none"]

NoReq == [kind |-> "none"]

\* handled = FALSE is an exception no handler catches (the framework's bare 500)
Response(o, req, status, handled, items, total, body) ==
    [op |-> o, req |-> req, status |-> status, handled |-> handled,
     items |-> items, total |-> total, body |-> body]

NoResp == Response("none", NoReq, 0, TRUE, <<>>, 0, NoBody)

Unhandled(o, req) == Response(o, req, 500, FALSE, <<>>, 0, NoBody)

\* raise HTTPException(status, ...)
HTTPException(o, req, status) == Response(o, req, status, TRUE, <<>>, 0, NoBody)

NoLoc == [kind |-> "none"]

\* a handler returns (or raises) in this step: its response is ready
Reply(w, r) ==
    /\ resp' = [resp EXCEPT ![w] = r]
    /\ pc' = [pc EXCEPT ![w] = "done"]
    /\ loc' = [loc EXCEPT ![w] = NoLoc]

\* a handler goes on to its next store call
Goto(w, label, l) ==
    /\ resp' = [resp EXCEPT ![w] = NoResp]
    /\ pc' = [pc EXCEPT ![w] = label]
    /\ loc' = [loc EXCEPT ![w] = l]

Idle(w) == started /\ pc[w] = "idle"

---------------------------------------------------------------------------
(* The store before startup *)

EmptyStore ==
    [product |-> <<>>, brand |-> <<>>, category |-> <<>>, sparepart |-> <<>>,
     review |-> <<>>]

InitStores ==
    { EmptyStore,
      [EmptyStore EXCEPT !.brand = <<StaleBrand>>],
      [product |-> <<ProductCable, ProductHY, ProductJCB>>,
       brand |-> DemoBrands, category |-> DemoCategories,
       sparepart |-> <<SparePlug, SpareChain>>,
       review |-> <<StoredReview("HY2000i", "zoe", 2),
                    StoredReview("HY2000i", "al", 1)>>],
      [product |-> <<ProductHY, ProductCable>>,
       brand |-> DemoBrands, category |-> DemoCategories,
       sparepart |-> <<SparePlug>>, review |-> <<>>] }

Init ==
    /\ db \in {None, "ok"}
    /\ started = FALSE
    /\ \E s \in InitStores :
          /\ product = s.product
          /\ brand = s.brand
          /\ category = s.category
          /\ sparepart = s.sparepart
          /\ review = s.review
    /\ order = <<>>
    /\ clock = 3
    /\ pc = [w \in Workers |-> "idle"]
    /\ loc = [w \in Workers |-> NoLoc]
    /\ resp = [w \in Workers |-> NoResp]
    /\ op = "none"
    /\ touched = FALSE

RECURSIVE UpsertAll(_, _)
UpsertAll(coll, docs) ==
    IF docs = <<>> THEN coll ELSE UpsertAll(Upsert(coll, Head(docs)), Tail(docs))

\* the startup hook
seed_data ==
    /\ ~started
    /\ started' = TRUE
    /\ op' = "startup"
    /\ IF db = None
       THEN /\ touched' = FALSE
            /\ UNCHANGED <<product, brand, category>>
       ELSE /\ touched' = TRUE
            /\ IF Find(product, {}) = <<>>
               THEN /\ brand' = UpsertAll(brand, DemoBrands)
                    /\ category' = UpsertAll(category, DemoCategories)
                    /\ product' = product \o DemoProducts
               ELSE UNCHANGED <<product, brand, category>>
    /\ UNCHANGED <<db, sparepart, review, order, clock, pc, loc, resp>>

\* a product removed from the store by another client of the database
ExternalRemove ==
    /\ started
    /\ db # None
    /\ \E i \in 1..Len(product) :
          product' = SubSeq(product, 1, i - 1) \o SubSeq(product, i + 1, Len(product))
    /\ op' = "external"
    /\ touched' = TRUE
    /\ UNCHANGED <<db, started, brand, category, sparepart, review, order, clock,
                   pc, loc, resp>>

\* the framework sends the response and the worker takes the next request
send(w) ==
    /\ pc[w] = "done"
    /\ pc' = [pc EXCEPT ![w] = "idle"]
    /\ resp' = [resp EXCEPT ![w] = NoResp]
    /\ op' = "send"
    /\ touched' = FALSE
    /\ UNCHANGED <<db, started, store, clock, loc>>

---------------------------------------------------------------------------
(* GET /api/products *)

NoPrice == <<>>

\* ProductQuery with $gt in place of $gte
ProductQueryStrictMin(req) ==
    (IF Truthy(req.brand) THEN {<<"brand", "eq", req.brand>>} ELSE {})
    \cup (IF Truthy(req.category) THEN {<<"category", "eq", req.category>>} ELSE {})
    \cup (IF Truthy(req.power_source)
          THEN {<<"power_source", "eq", req.power_source>>} ELSE {})
    \cup (IF req.min_price # NoPrice
          THEN {<<"price.inc_vat", "gte", req.min_price[1] + 1>>} ELSE {})
    \cup (IF req.max_price # NoPrice
          THEN {<<"price.inc_vat", "lte", req.max_price[1]>>} ELSE {})

ProductQuery(req) ==
    (IF Truthy(req.brand) THEN {<<"brand", "eq", req.brand>>} ELSE {})
    \cup (IF Truthy(req.category) THEN {<<"category", "eq", req.category>>} ELSE {})
    \cup (IF Truthy(req.power_source)
          THEN {<<"power_source", "eq", req.power_source>>} ELSE {})
    \cup (IF req.min_price # NoPrice
          THEN {<<"price.inc_vat", "gte", req.min_price[1]>>} ELSE {})
    \cup (IF req.max_price # NoPrice
          THEN {<<"price.inc_vat", "lte", req.max_price[1]>>} ELSE {})

\* the guard and count_documents
list_products_count(w, req) ==
    /\ Idle(w)
    /\ op' = "list_products"
    /\ IF db = None
       THEN /\ Reply(w, Response("list_products", req, 200, TRUE, <<>>, 0, NoBody))
            /\ touched' = FALSE
       ELSE /\ Goto(w, "lp_counted",
                    [req |-> req, query |-> ProductQuery(req),
                     total |-> CountDocuments(product, ProductQuery(req))])
            /\ touched' = TRUE
    /\ UNCHANGED <<db, started, store, clock>>

\* list_products_find skipping page * page_size
list_products_find_from_next_page(w) ==
    /\ pc[w] = "lp_counted"
    /\ op' = "list_products"
    /\ LET req == loc[w].req
           n == req.page * req.page_size
       IN IF n < 0
          THEN /\ Reply(w, Unhandled("list_products", req))
               /\ touched' = FALSE
          ELSE /\ Reply(w, Response("list_products", req, 200, TRUE,
                                    Limit(Skip(Find(product, loc[w].query), n),
                                          req.page_size),
                                    loc[w].total, NoBody))
               /\ touched' = TRUE
    /\ UNCHANGED <<db, started, store, clock>>

\* find(query).skip((page - 1) * page_size).limit(page_size)
list_products_find(w) ==
    /\ pc[w] = "lp_counted"
    /\ op' = "list_products"
    /\ LET req == loc[w].req
           n == (req.page - 1) * req.page_size
       IN IF n < 0
          THEN /\ Reply(w, Unhandled("list_products", req))
               /\ touched' = FALSE
          ELSE /\ Reply(w, Response("list_products", req, 200, TRUE,
                                    Limit(Skip(Find(product, loc[w].query), n),
                                          req.page_size),
                                    loc[w].total, NoBody))
               /\ touched' = TRUE
    /\ UNCHANGED <<db, started, store, clock>>

Brands == {None, "", "hyundai"}
Categories == {None, "generators"}
PowerSources == {None, "petrol"}
MinPrices == {NoPrice, <<49900>>}
MaxPrices == {NoPrice, <<49900>>}
Pages == 0..MaxPage
PageSizes == {-1, 0, 1, 2}

ListRequests ==
    [brand : Brands, category : Categories, power_source : PowerSources,
     min_price : MinPrices, max_price : MaxPrices, page : Pages,
     page_size : PageSizes]

---------------------------------------------------------------------------
(* GET /api/products/{sku} *)

\* get_product_find without the `db is None` guard: db["product"] raises on None
get_product_find_unguarded(w, sku) ==
    /\ Idle(w)
    /\ op' = "get_product"
    /\ touched' = TRUE
    /\ IF db = None
       THEN Reply(w, Unhandled("get_product", sku))
       ELSE LET p == Find(product, {<<"sku", "eq", sku>>})
            IN IF p = <<>>
               THEN Reply(w, HTTPException("get_product", sku, 404))
               ELSE Goto(w, "gp_found",
                         [sku |-> sku, p |-> p[1],
                          has_accessory_items |-> FALSE,
                          accessory_items |-> <<>>])
    /\ UNCHANGED <<db, started, store, clock>>

\* the guard and find_one({"sku": sku})
get_product_find(w, sku) ==
    /\ Idle(w)
    /\ op' = "get_product"
    /\ IF db = None
       THEN /\ Reply(w, HTTPException("get_product", sku, 500))
            /\ touched' = FALSE
       ELSE /\ touched' = TRUE
            /\ LET p == Find(product, {<<"sku", "eq", sku>>})
               IN IF p = <<>>
                  THEN Reply(w, HTTPException("get_product", sku, 404))
                  ELSE Goto(w, "gp_found",
                            [sku |-> sku, p |-> p[1],
                             has_accessory_items |-> FALSE,
                             accessory_items |-> <<>>])
    /\ UNCHANGED <<db, started, store, clock>>

\* get_product_accessories resolving related_skus in place of accessories
get_product_accessories_from_related(w) ==
    /\ pc[w] = "gp_found"
    /\ op' = "get_product"
    /\ LET p == loc[w].p
       IN IF p.accessories # <<>>
          THEN /\ Goto(w, "gp_acc",
                       [loc[w] EXCEPT
                          !.has_accessory_items = TRUE,
                          !.accessory_items =
                              SummaryOf(Find(product, {<<"sku", "in", p.related_skus>>}))])
               /\ touched' = TRUE
          ELSE /\ Goto(w, "gp_acc", loc[w])
               /\ touched' = FALSE
    /\ UNCHANGED <<db, started, store, clock>>

\* if p.get("accessories"): find({"sku": {"$in": p["accessories"]}})
get_product_accessories(w) ==
    /\ pc[w] = "gp_found"
    /\ op' = "get_product"
    /\ LET p == loc[w].p
       IN IF p.accessories # <<>>
          THEN /\ Goto(w, "gp_acc",
                       [loc[w] EXCEPT
                          !.has_accessory_items = TRUE,
                          !.accessory_items =
                              SummaryOf(Find(product, {<<"sku", "in", p.accessories>>}))])
               /\ touched' = TRUE
          ELSE /\ Goto(w, "gp_acc", loc[w])
               /\ touched' = FALSE
    /\ UNCHANGED <<db, started, store, clock>>

\* if p.get("related_skus"): find({"sku": {"$in": p["related_skus"]}}); return p
get_product_related(w) ==
    /\ pc[w] = "gp_acc"
    /\ op' = "get_product"
    /\ LET p == loc[w].p
           has == p.related_skus # <<>>
           rel == IF has
                  THEN SummaryOf(Find(product, {<<"sku", "in", p.related_skus>>}))
                  ELSE <<>>
       IN /\ Reply(w, Response("get_product", loc[w].sku, 200, TRUE, <<>>, 0,
                               [kind |-> "product", doc |-> p,
                                has_accessory_items |-> loc[w].has_accessory_items,
                                accessory_items |-> loc[w].accessory_items,
                                has_related_items |-> has,
                                related_items |-> rel]))
          /\ touched' = has
    /\ UNCHANGED <<db, started, store, clock>>

Skus == {"HY2000i", "HYCABLE1", "JCB-18V-IMPACT", "HY3000i"}

---------------------------------------------------------------------------
(* GET /api/search *)

DefaultLimit == 8

\* (p.get("media", {}).get("images", [None]) or [None])[0]
FirstImage(d) == IF d.media.images = <<>> THEN None ELSE d.media.images[1]

SearchSuggestion(d) ==
    [sku |-> d.sku, title |-> d.title, brand |-> d.brand, category |-> d.category,
     price_inc_vat |-> d.price.inc_vat, image |-> FirstImage(d)]

search(w, q, limit) ==
    /\ Idle(w)
    /\ op' = "search"
    /\ LET req == [q |-> q, limit |-> limit]
       IN IF db = None
          THEN /\ Reply(w, Response("search", req, 200, TRUE, <<>>, 0, NoBody))
               /\ touched' = FALSE
          ELSE /\ touched' = TRUE
               /\ LET cursor == Limit(Find(product, {<<"title", "regex_i", q>>}), limit)
                  IN Reply(w, Response("search", req, 200, TRUE,
                                       [i \in 1..Len(cursor) |->
                                           SearchSuggestion(cursor[i])],
                                       0, NoBody))
    /\ UNCHANGED <<db, started, store, clock>>

Queries == {<<"g","e","n">>, <<"H","Y">>, <<"j","c","b">>, <<"z">>}

Limits == {-1, 0, 1, 2, DefaultLimit}

NextCatalog ==
    \/ seed_data
    \/ ExternalRemove
    \/ \E w \in FirstWorker, req \in ListRequests : list_products_count(w, req)
    \/ \E w \in FirstWorker : list_products_find(w)
    \/ \E w \in FirstWorker, sku \in Skus : get_product_find(w, sku)
    \/ \E w \in FirstWorker : get_product_accessories(w)
    \/ \E w \in FirstWorker : get_product_related(w)
    \/ \E w \in FirstWorker, q \in Queries, limit \in Limits : search(w, q, limit)
    \/ \E w \in FirstWorker : send(w)

SpecCatalog == Init /\ [][NextCatalog]_vars

---------------------------------------------------------------------------
(* database.create_document *)

Merge(r, extra) ==
    [f \in (DOMAIN r) \cup (DOMAIN extra) |-> IF f \in DOMAIN extra THEN extra[f] ELSE r[f]]

\* the {"_id": 0} projection
StripId(d) == [f \in (DOMAIN d) \ {"_id"} |-> d[f]]

StripIds(s) == [i \in 1..Len(s) |-> StripId(s[i])]

\* the identifier the store generates for the next inserted document
NewId == clock

\* create_document(collection_name, data): the document stamped with the creation
\* time and inserted as a new document of the collection
create_document(coll, data) ==
    Append(coll, Merge(data, [_id |-> NewId, created_at |-> clock]))

---------------------------------------------------------------------------
(* POST /api/products/{sku}/reviews *)

\* post_review_check without the existence check
post_review_check_any_sku(w, sku, rv) ==
    /\ Idle(w)
    /\ Len(review) < MaxReviews
    /\ op' = "post_review"
    /\ LET req == [sku |-> sku, review |-> rv]
       IN IF db = None
          THEN /\ Reply(w, HTTPException("post_review", req, 500))
               /\ touched' = FALSE
          ELSE /\ touched' = FALSE
               /\ Goto(w, "pr_checked", req)
    /\ UNCHANGED <<db, started, store, clock>>

\* the guard and the existence check find_one({"sku": sku})
post_review_check(w, sku, rv) ==
    /\ Idle(w)
    /\ Len(review) < MaxReviews
    /\ op' = "post_review"
    /\ LET req == [sku |-> sku, review |-> rv]
       IN IF db = None
          THEN /\ Reply(w, HTTPException("post_review", req, 500))
               /\ touched' = FALSE
          ELSE /\ touched' = TRUE
               /\ IF Find(product, {<<"sku", "eq", sku>>}) = <<>>
                  THEN Reply(w, HTTPException("post_review", req, 404))
                  ELSE Goto(w, "pr_checked", req)
    /\ UNCHANGED <<db, started, store, clock>>

\* post_review_insert without review_dict["sku"] = sku
post_review_insert_body_sku(w) ==
    /\ pc[w] = "pr_checked"
    /\ op' = "post_review"
    /\ review' = create_document(review, loc[w].review)
    /\ clock' = clock + 1
    /\ touched' = TRUE
    /\ Reply(w, Response("post_review", loc[w], 200, TRUE, <<>>, 0,
                         [kind |-> "status", status |-> "ok"]))
    /\ UNCHANGED <<db, started, product, brand, category, sparepart, order>>

\* post_review_insert that also counts the review in the product's rating_count
post_review_insert_and_touch_product(w) ==
    /\ pc[w] = "pr_checked"
    /\ op' = "post_review"
    /\ LET review_dict == [loc[w].review EXCEPT !.sku = loc[w].sku]
       IN review' = create_document(review, review_dict)
    /\ product' = [i \in 1..Len(product) |->
                       IF product[i].sku = loc[w].sku
                       THEN [product[i] EXCEPT !.rating_count = @ + 1]
                       ELSE product[i]]
    /\ clock' = clock + 1
    /\ touched' = TRUE
    /\ Reply(w, Response("post_review", loc[w], 200, TRUE, <<>>, 0,
                         [kind |-> "status", status |-> "ok"]))
    /\ UNCHANGED <<db, started, brand, category, sparepart, order>>

\* review_dict = review.model_dump(); review_dict["sku"] = sku; create_document
post_review_insert(w) ==
    /\ pc[w] = "pr_checked"
    /\ op' = "post_review"
    /\ LET review_dict == [loc[w].review EXCEPT !.sku = loc[w].sku]
       IN review' = create_document(review, review_dict)
    /\ clock' = clock + 1
    /\ touched' = TRUE
    /\ Reply(w, Response("post_review", loc[w], 200, TRUE, <<>>, 0,
                         [kind |-> "status", status |-> "ok"]))
    /\ UNCHANGED <<db, started, product, brand, category, sparepart, order>>

\* the request bodies: a Review (schemas.py), whose sku the path overrides
Reviews ==
    [sku : {"HY2000i", "SPOOFED"}, title : {"t"}, body : {"b"}, rating : {4},
     author : {"bob"}]

ReviewByBob ==
    [sku |-> "HY2000i", title |-> "t", body |-> "b", rating |-> 4, author |-> "bob"]

ReviewSkus == {"HY2000i", "HYCABLE1", "HY3000i"}

---------------------------------------------------------------------------
(* GET /api/products/{sku}/reviews *)

\* the guard and count_documents({"sku": sku})
get_reviews_count(w, sku, page, page_size) ==
    /\ Idle(w)
    /\ op' = "get_reviews"
    /\ LET req == [sku |-> sku, page |-> page, page_size |-> page_size]
       IN IF db = None
          THEN /\ Reply(w, Response("get_reviews", req, 200, TRUE, <<>>, 0, NoBody))
               /\ touched' = FALSE
          ELSE /\ Goto(w, "gr_counted",
                       [req |-> req,
                        total |-> CountDocuments(review, {<<"sku", "eq", sku>>})])
               /\ touched' = TRUE
    /\ UNCHANGED <<db, started, store, clock>>

\* find(query, {"_id": 0}).sort("created_at", -1).skip(...).limit(page_size)
get_reviews_find(w) ==
    /\ pc[w] = "gr_counted"
    /\ op' = "get_reviews"
    /\ LET req == loc[w].req
           n == (req.page - 1) * req.page_size
       IN IF n < 0
          THEN /\ Reply(w, Unhandled("get_reviews", req))
               /\ touched' = FALSE
          ELSE /\ Reply(w, Response("get_reviews", req, 200, TRUE,
                                    StripIds(Limit(Skip(SortDesc(
                                        Find(review, {<<"sku", "eq", req.sku>>})), n),
                                        req.page_size)),
                                    loc[w].total, NoBody))
               /\ touched' = TRUE
    /\ UNCHANGED <<db, started, store, clock>>

NextReviews ==
    \/ seed_data
    \/ ExternalRemove
    \/ \E w \in FirstWorker, sku \in ReviewSkus, rv \in Reviews : post_review_check(w, sku, rv)
    \/ \E w \in FirstWorker : post_review_insert(w)
    \/ \E w \in FirstWorker, sku \in ReviewSkus, page \in Pages, page_size \in PageSizes :
          get_reviews_count(w, sku, page, page_size)
    \/ \E w \in FirstWorker : get_reviews_find(w)
    \/ \E w \in FirstWorker : send(w)

SpecReviews == Init /\ [][NextReviews]_vars

---------------------------------------------------------------------------
(* POST /api/checkout *)

OrderA ==
    [email |-> "a@example.com",
     items |-> <<[sku |-> "HY2000i", title |-> TitleHY, qty |-> 1,
                  unit_price_inc_vat |-> 59999]>>,
     total_inc_vat |-> 59999, payment_method |-> "card"]

OrderB ==
    [email |-> "b@example.com",
     items |-> <<[sku |-> "JCB-18V-IMPACT", title |-> TitleJCB, qty |-> 2,
                  unit_price_inc_vat |-> 12999]>>,
     total_inc_vat |-> 25998, payment_method |-> "cod"]

Orders == {OrderA, OrderB}

\* checkout that returns the identifier of an equal order already stored
checkout_deduplicating(w, o) ==
    /\ Idle(w)
    /\ Len(order) < MaxOrders
    /\ op' = "checkout"
    /\ IF db = None
       THEN /\ Reply(w, HTTPException("checkout", o, 500))
            /\ touched' = FALSE
            /\ UNCHANGED <<order, clock>>
       ELSE LET same == SelectSeq(order, LAMBDA d : d.email = o.email /\ d.items = o.items)
            IN IF same # <<>>
               THEN /\ UNCHANGED <<order, clock>>
                    /\ touched' = TRUE
                    /\ Reply(w, Response("checkout", o, 200, TRUE, <<>>, 0,
                                         [kind |-> "order", status |-> "ok",
                                          order_id |-> same[1]._id]))
               ELSE /\ order' = create_document(order, o)
                    /\ clock' = clock + 1
                    /\ touched' = TRUE
                    /\ Reply(w, Response("checkout", o, 200, TRUE, <<>>, 0,
                                         [kind |-> "order", status |-> "ok",
                                          order_id |-> NewId]))
    /\ UNCHANGED <<db, started, product, brand, category, sparepart, review>>

\* oid = create_document("order", order)
checkout(w, o) ==
    /\ Idle(w)
    /\ Len(order) < MaxOrders
    /\ op' = "checkout"
    /\ IF db = None
       THEN /\ Reply(w, HTTPException("checkout", o, 500))
            /\ touched' = FALSE
            /\ UNCHANGED <<order, clock>>
       ELSE /\ order' = create_document(order, o)
            /\ clock' = clock + 1
            /\ touched' = TRUE
            /\ Reply(w, Response("checkout", o, 200, TRUE, <<>>, 0,
                                 [kind |-> "order", status |-> "ok",
                                  order_id |-> NewId]))
    /\ UNCHANGED <<db, started, product, brand, category, sparepart, review>>

---------------------------------------------------------------------------
(* GET /api/brands, /api/categories, /api/spares, /, /schema, /test *)

\* `... if db else []`: None is falsy; the truth value of a database object is
\* either true or, in drivers that refuse truth testing, an exception
get_brands(w) ==
    /\ Idle(w)
    /\ op' = "get_brands"
    /\ \/ /\ db = None
          /\ Reply(w, Response("get_brands", NoReq, 200, TRUE, <<>>, 0, NoBody))
          /\ touched' = FALSE
       \/ /\ db # None
          /\ Reply(w, Response("get_brands", NoReq, 200, TRUE, brand, 0, NoBody))
          /\ touched' = TRUE
       \/ /\ db # None
          /\ Reply(w, Unhandled("get_brands", NoReq))
          /\ touched' = FALSE
    /\ UNCHANGED <<db, started, store, clock>>

get_categories(w) ==
    /\ Idle(w)
    /\ op' = "get_categories"
    /\ \/ /\ db = None
          /\ Reply(w, Response("get_categories", NoReq, 200, TRUE, <<>>, 0, NoBody))
          /\ touched' = FALSE
       \/ /\ db # None
          /\ Reply(w, Response("get_categories", NoReq, 200, TRUE, category, 0, NoBody))
          /\ touched' = TRUE
       \/ /\ db # None
          /\ Reply(w, Unhandled("get_categories", NoReq))
          /\ touched' = FALSE
    /\ UNCHANGED <<db, started, store, clock>>

NoQuery == <<>>

SparesQuery(sku, q) ==
    (IF Truthy(sku) THEN {<<"compatible_skus", "has", sku>>} ELSE {})
    \cup (IF q # NoQuery THEN {<<"title", "regex_i", q>>} ELSE {})

spares_for(w, sku, q) ==
    /\ Idle(w)
    /\ op' = "spares_for"
    /\ LET req == [sku |-> sku, q |-> q]
       IN IF db = None
          THEN /\ Reply(w, Response("spares_for", req, 200, TRUE, <<>>, 0, NoBody))
               /\ touched' = FALSE
          ELSE /\ Reply(w, Response("spares_for", req, 200, TRUE,
                                    Find(sparepart, SparesQuery(sku, q)), 0, NoBody))
               /\ touched' = TRUE
    /\ UNCHANGED <<db, started, store, clock>>

root(w) ==
    /\ Idle(w)
    /\ op' = "root"
    /\ Reply(w, Response("root", NoReq, 200, TRUE, <<>>, 0,
                         [kind |-> "status", status |-> "ok"]))
    /\ touched' = FALSE
    /\ UNCHANGED <<db, started, store, clock>>

schema_info(w) ==
    /\ Idle(w)
    /\ op' = "schema_info"
    /\ Reply(w, Response("schema_info", NoReq, 200, TRUE,
                         <<"Brand", "Category", "PriceInfo", "Media", "SpecItem",
                           "Product", "Review", "Bundle", "SparePart", "Address",
                           "OrderItem", "Order", "SearchSuggestion", "User">>,
                         0, NoBody))
    /\ touched' = FALSE
    /\ UNCHANGED <<db, started, store, clock>>

\* the collection names are read only when db is not None
test_database(w) ==
    /\ Idle(w)
    /\ op' = "test_database"
    /\ Reply(w, Response("test_database", NoReq, 200, TRUE, <<>>, 0,
                         [kind |-> "health",
                          database |-> IF db = None THEN "Not Available"
                                       ELSE "Connected"]))
    /\ touched' = (db # None)
    /\ UNCHANGED <<db, started, store, clock>>

---------------------------------------------------------------------------
(* Every endpoint, the requests with their default parameters *)

DefaultPageSize == 12

DefaultReviewPageSize == 10

NoFilter ==
    [brand |-> None, category |-> None, power_source |-> None,
     min_price |-> NoPrice, max_price |-> NoPrice, page |-> 1,
     page_size |-> DefaultPageSize]

Next ==
    \/ seed_data
    \/ \E w \in FirstWorker : list_products_count(w, NoFilter)
    \/ \E w \in FirstWorker : list_products_find(w)
    \/ \E w \in FirstWorker, sku \in {"HY2000i", "HY3000i"} : get_product_find(w, sku)
    \/ \E w \in FirstWorker : get_product_accessories(w)
    \/ \E w \in FirstWorker : get_product_related(w)
    \/ \E w \in FirstWorker : search(w, <<"g","e","n">>, DefaultLimit)
    \/ \E w \in FirstWorker, sku \in {"HY2000i", "HY3000i"} :
          post_review_check(w, sku, ReviewByBob)
    \/ \E w \in FirstWorker : post_review_insert(w)
    \/ \E w \in FirstWorker : get_reviews_count(w, "HY2000i", 1, DefaultReviewPageSize)
    \/ \E w \in FirstWorker : get_reviews_find(w)
    \/ \E w \in Workers, o \in Orders : checkout(w, o)
    \/ \E w \in FirstWorker : get_brands(w)
    \/ \E w \in FirstWorker : get_categories(w)
    \/ \E w \in FirstWorker, sku \in {None, "HY2000i"}, q \in {NoQuery, <<"p","L">>} :
          spares_for(w, sku, q)
    \/ \E w \in FirstWorker : root(w)
    \/ \E w \in FirstWorker : schema_info(w)
    \/ \E w \in FirstWorker : test_database(w)
    \/ \E w \in Workers : send(w)

Spec == Init /\ [][Next]_vars

---------------------------------------------------------------------------
(* Properties *)

\* worker w's handler `name` returns or raises in this step
Completes(w, name) == op' = name /\ pc[w] # "done" /\ pc'[w] = "done"

\* worker w's handler moves from one position to another in this step
Moves(w, name, from, to) == op' = name /\ pc[w] = from /\ pc'[w] = to

IsDone(w, name) == pc[w] = "done" /\ resp[w].op = name

Indices(s) == 1..Len(s)

\* a string filter counts as specified when it is present in the request
Specified(x) == x # None

\* a string filter counts as specified when it is present and not empty
Given(x) == x # None /\ x # ""

SatisfiesSpecified(d, req) ==
    /\ Specified(req.brand) => d.brand = req.brand
    /\ Specified(req.category) => d.category = req.category
    /\ Specified(req.power_source) => d.power_source = req.power_source
    /\ req.min_price # NoPrice => req.min_price[1] <= d.price.inc_vat
    /\ req.max_price # NoPrice => d.price.inc_vat <= req.max_price[1]

SatisfiesGiven(d, req) ==
    /\ Given(req.brand) => d.brand = req.brand
    /\ Given(req.category) => d.category = req.category
    /\ Given(req.power_source) => d.power_source = req.power_source
    /\ req.min_price # NoPrice => req.min_price[1] <= d.price.inc_vat
    /\ req.max_price # NoPrice => d.price.inc_vat <= req.max_price[1]

\* C1 as stated: every item list_products returns satisfies every filter present in
\* the request (brand, category, power_source by equality, the price bounds
\* inclusively), and the total counts every product that satisfies them (a filter
\* that is absent constrains nothing; with no filter every product counts).
C1_FiltersAsStated ==
    [][\A w \in Workers :
          /\ Moves(w, "list_products", "idle", "lp_counted") =>
                loc'[w].total =
                   Cardinality({i \in Indices(product) :
                                   SatisfiesSpecified(product[i], loc'[w].req)})
          /\ (Completes(w, "list_products") /\ db # None /\ resp'[w].handled) =>
                \A i \in Indices(resp'[w].items) :
                   /\ resp'[w].items[i] \in Range(product)
                   /\ SatisfiesSpecified(resp'[w].items[i], resp'[w].req)]_vars

\* C1 amended: the same, where brand, category and power_source count as specified
\* only when they are non-empty strings; an empty string constrains nothing.
C1_FiltersNonEmpty ==
    [][\A w \in Workers :
          /\ Moves(w, "list_products", "idle", "lp_counted") =>
                loc'[w].total =
                   Cardinality({i \in Indices(product) :
                                   SatisfiesGiven(product[i], loc'[w].req)})
          /\ (Completes(w, "list_products") /\ db # None /\ resp'[w].handled) =>
                \A i \in Indices(resp'[w].items) :
                   /\ resp'[w].items[i] \in Range(product)
                   /\ SatisfiesGiven(resp'[w].items[i], resp'[w].req)]_vars

\* an empty brand is ignored while category and both inclusive price bounds select
\* exactly the product priced at the bound
C1_Witness ==
    \E w \in Workers :
       /\ IsDone(w, "list_products")
       /\ resp[w].req.brand = ""
       /\ resp[w].req.category = "generators"
       /\ resp[w].req.min_price = <<49900>>
       /\ resp[w].req.max_price = <<49900>>
       /\ resp[w].items = <<ProductCable>>
       /\ resp[w].total = 1
       /\ Len(product) = 3

\* the products matching the request's filters, in store order
MatchSequence(req) == SelectSeq(product, LAMBDA d : SatisfiesGiven(d, req))

\* C2: for page >= 1 and page_size > 0, list_products returns the matches at
\* positions (page-1)*page_size .. (page-1)*page_size + page_size - 1 of the match
\* sequence (at most page_size items), total is the number of all matches whatever
\* the page, and a page at or beyond total is empty with the same total.
C2_Pagination ==
    [][\A w \in Workers :
          /\ Moves(w, "list_products", "idle", "lp_counted") =>
                loc'[w].total = Len(MatchSequence(loc'[w].req))
          /\ (Completes(w, "list_products") /\ pc[w] = "lp_counted"
                /\ loc[w].req.page >= 1 /\ loc[w].req.page_size > 0) =>
                LET req == loc[w].req
                    m == MatchSequence(req)
                    first == (req.page - 1) * req.page_size
                    items == resp'[w].items
                IN /\ resp'[w].handled /\ resp'[w].status = 200
                   /\ resp'[w].total = loc[w].total
                   /\ Len(items) <= req.page_size
                   /\ Len(items) = IF first >= Len(m) THEN 0
                                   ELSE Min(req.page_size, Len(m) - first)
                   /\ \A i \in Indices(items) : items[i] = m[first + i]
                   /\ first >= resp'[w].total => items = <<>>]_vars

\* the last, partial page of three matches, and a page beyond them
C2_Witness ==
    \E w \in Workers :
       /\ IsDone(w, "list_products")
       /\ resp[w].req.page = 2
       /\ resp[w].req.page_size = 2
       /\ resp[w].total = 3
       /\ resp[w].items = <<ProductJCB>>

\* items is exactly the summaries of the products of the store whose SKU is in skus
ResolvedFrom(items, skus) ==
    /\ {items[i].sku : i \in Indices(items)}
          = {d.sku : d \in Range(product)} \cap Range(skus)
    /\ \A i \in Indices(items) :
          \E d \in Range(product) :
             /\ items[i].sku = d.sku /\ items[i].title = d.title
             /\ items[i].price = d.price /\ items[i].media = d.media
    /\ \A i, j \in Indices(items) : items[i].sku = items[j].sku => i = j
    /\ Len(items) <= Len(skus)

\* C3: get_product answers 404 exactly when no product has the SKU; otherwise it
\* succeeds, and accessory_items (related_items) is exactly the products in the
\* store, at the time of that read, whose SKU is in accessories (related_skus):
\* SKUs that resolve to nothing, also ones removed since the primary read, are
\* left out without error, and no list is longer than its source list.
C3_GetProduct ==
    [][\A w \in Workers :
          /\ (op' = "get_product" /\ pc[w] = "idle" /\ pc'[w] # "idle" /\ db # None) =>
                \/ /\ pc'[w] = "done"
                   /\ resp'[w].status = 404 /\ resp'[w].handled
                   /\ \A d \in Range(product) : d.sku # resp'[w].req
                \/ /\ pc'[w] = "gp_found"
                   /\ loc'[w].p \in Range(product)
                   /\ loc'[w].p.sku = loc'[w].sku
          /\ Moves(w, "get_product", "gp_found", "gp_acc") =>
                /\ loc'[w].p = loc[w].p
                /\ ResolvedFrom(loc'[w].accessory_items, loc[w].p.accessories)
          /\ (op' = "get_product" /\ pc[w] = "gp_acc" /\ pc'[w] # "gp_acc") =>
                /\ pc'[w] = "done"
                /\ resp'[w].status = 200 /\ resp'[w].handled
                /\ resp'[w].body.doc = loc[w].p
                /\ resp'[w].body.accessory_items = loc[w].accessory_items
                /\ ResolvedFrom(resp'[w].body.related_items,
                                loc[w].p.related_skus)]_vars

\* HY2000i is in both lists of HYCABLE1: it resolved for accessory_items and
\* was removed before the read for related_items
C3_Witness ==
    \E w \in Workers :
       /\ IsDone(w, "get_product")
       /\ resp[w].status = 200
       /\ resp[w].body.doc = ProductCable
       /\ resp[w].body.accessory_items = <<Summary(ProductHY)>>
       /\ resp[w].body.related_items = <<Summary(ProductJCB)>>

\* C9 as stated, for the limits >= 0 (the endpoint accepts every integer): search
\* returns at most limit suggestions, each a product of the store whose title
\* matches q whatever the case, with no image when the product has none.
C9_SearchAtMostLimit ==
    [][\A w \in Workers :
          (Completes(w, "search") /\ db # None /\ resp'[w].req.limit >= 0) =>
             /\ resp'[w].handled /\ resp'[w].status = 200
             /\ Len(resp'[w].items) <= resp'[w].req.limit
             /\ \A i \in Indices(resp'[w].items) :
                   \E d \in Range(product) :
                      /\ d.sku = resp'[w].items[i].sku
                      /\ d.title = resp'[w].items[i].title
                      /\ Contains(LowerSeq(d.title), LowerSeq(resp'[w].req.q))
                      /\ d.media.images = <<>> =>
                            resp'[w].items[i].image = None]_vars

\* the reviews stored for a SKU
ReviewsOf(sku) == {i \in Indices(review) : review[i].sku = sku}

\* C4: post_review for a SKU that no product has answers 404 and leaves the review
\* collection unchanged; a review is only ever persisted by a post_review whose
\* existence check found a product with the review's SKU.
C4_UnknownSkuNotFound ==
    [][/\ \A w \in Workers :
             (op' = "post_review" /\ pc[w] = "idle" /\ pc'[w] # "idle" /\ db # None) =>
                \/ /\ pc'[w] = "done"
                   /\ resp'[w].status = 404 /\ resp'[w].handled
                   /\ \A d \in Range(product) : d.sku # resp'[w].req.sku
                   /\ review' = review
                \/ /\ pc'[w] = "pr_checked"
                   /\ \E d \in Range(product) : d.sku = loc'[w].sku
                   /\ review' = review
       /\ review' # review =>
             \E w \in Workers :
                /\ op' = "post_review" /\ pc[w] = "pr_checked" /\ pc'[w] = "done"
                /\ Len(review') = Len(review) + 1
                /\ SubSeq(review', 1, Len(review)) = review
                /\ review'[Len(review')].sku = loc[w].sku]_vars

\* a review posted for HY2000i is stored, and a later post for the same SKU, the
\* product since removed, is answered 404
C4_Witness ==
    \E w \in Workers :
       /\ IsDone(w, "post_review")
       /\ resp[w].status = 404
       /\ resp[w].req.sku = "HY2000i"
       /\ \E i \in Indices(review) :
             review[i].sku = "HY2000i" /\ review[i].author = "bob"

\* C5: a successful post_review persists exactly one new review, whose sku is the
\* SKU of the request path whatever sku the body carried, and answers a status
\* acknowledgment only, with no generated identifier.
C5_ReviewStampedWithPathSku ==
    [][\A w \in Workers :
          (op' = "post_review" /\ pc[w] = "pr_checked" /\ pc'[w] # "pr_checked") =>
             LET new == review'[Len(review')]
             IN /\ pc'[w] = "done"
                /\ resp'[w].status = 200 /\ resp'[w].handled
                /\ Len(review') = Len(review) + 1
                /\ SubSeq(review', 1, Len(review)) = review
                /\ new.sku = loc[w].sku
                /\ new.title = loc[w].review.title
                /\ new.body = loc[w].review.body
                /\ new.rating = loc[w].review.rating
                /\ new.author = loc[w].review.author
                /\ DOMAIN resp'[w].body = {"kind", "status"}
                /\ resp'[w].body.status = "ok"]_vars

\* the body carried another sku than the path
C5_Witness ==
    \E w \in Workers :
       /\ IsDone(w, "post_review")
       /\ resp[w].status = 200
       /\ resp[w].req.review.sku = "SPOOFED"
       /\ resp[w].req.sku = "HYCABLE1"
       /\ review[Len(review)].sku = "HYCABLE1"

\* C6 as stated, for the requests with page >= 1 and page_size >= 0: get_reviews
\* returns only reviews of the requested SKU, most recent first, the slice from
\* offset (page-1)*page_size of at most page_size items, and total is the number of
\* reviews stored for the SKU.
C6_ReviewsPage ==
    [][\A w \in Workers :
          /\ Moves(w, "get_reviews", "idle", "gr_counted") =>
                loc'[w].total = Cardinality(ReviewsOf(loc'[w].req.sku))
          /\ (Completes(w, "get_reviews") /\ db # None
                /\ resp'[w].req.page >= 1 /\ resp'[w].req.page_size >= 0) =>
                LET req == resp'[w].req
                    items == resp'[w].items
                    first == (req.page - 1) * req.page_size
                IN /\ resp'[w].handled /\ resp'[w].status = 200
                   /\ resp'[w].total = loc[w].total
                   /\ Len(items) <= req.page_size
                   /\ \A i \in Indices(items) :
                         /\ items[i].sku = req.sku
                         /\ \E k \in ReviewsOf(req.sku) : StripId(review[k]) = items[i]
                         /\ Cardinality({k \in ReviewsOf(req.sku) :
                                review[k].created_at > items[i].created_at})
                               = first + i - 1
                   /\ \A i, j \in Indices(items) :
                         i < j => items[i].created_at > items[j].created_at]_vars

OrderContents(d) == [f \in (DOMAIN d) \ {"_id", "created_at"} |-> d[f]]

\* C7: every checkout while the store is available adds exactly one order record,
\* equal in contents to the submitted order, and returns its generated identifier,
\* which no earlier order has (identical submissions are not deduplicated); no
\* step ever modifies or removes a persisted order.
C7_CheckoutAddsOneOrder ==
    [][/\ \A w \in Workers :
             (op' = "checkout" /\ pc[w] = "idle" /\ pc'[w] = "done" /\ db # None) =>
                LET new == order'[Len(order')]
                IN /\ resp'[w].status = 200 /\ resp'[w].handled
                   /\ Len(order') = Len(order) + 1
                   /\ OrderContents(new) = resp'[w].req
                   /\ resp'[w].body.order_id = new._id
                   /\ \A i \in Indices(order) : order[i]._id # new._id
       /\ Len(order) <= Len(order')
       /\ SubSeq(order', 1, Len(order)) = order
       /\ order' # order => op' = "checkout"]_vars

\* two workers have each answered a checkout of the same order: two records with
\* the same contents and different identifiers
C7_Witness ==
    /\ IsDone("w1", "checkout") /\ IsDone("w2", "checkout")
    /\ resp["w1"].req = resp["w2"].req
    /\ Len(order) = 2
    /\ OrderContents(order[1]) = OrderContents(order[2])
    /\ order[1]._id # order[2]._id
    /\ {resp["w1"].body.order_id, resp["w2"].body.order_id}
          = {order[1]._id, order[2]._id}

\* what the endpoint of response r answers when the store is unavailable
Degraded(r) ==
    CASE r.op \in {"search", "get_brands", "get_categories", "spares_for"} ->
            r.status = 200 /\ r.items = <<>>
      [] r.op \in {"list_products", "get_reviews"} ->
            r.status = 200 /\ r.items = <<>> /\ r.total = 0
      [] r.op \in {"get_product", "post_review", "checkout"} ->
            r.status = 500
      [] OTHER -> r.status = 200

\* C8: with db None no endpoint raises an unhandled error: the list endpoints answer
\* an empty result, product detail, review post and checkout answer 500, and no
\* step reads or writes the store.
C8_StoreUnavailable ==
    [][db = None =>
          /\ touched' = FALSE
          /\ store' = store
          /\ \A w \in Workers :
                /\ pc'[w] \in {"idle", "done"}
                /\ (pc[w] # "done" /\ pc'[w] = "done") =>
                      resp'[w].handled /\ Degraded(resp'[w])]_vars

\* with db None a checkout is answered 500 while a product detail is answered 500
C8_Witness ==
    /\ db = None
    /\ IsDone("w2", "checkout") /\ resp["w2"].status = 500
    /\ IsDone("w1", "get_product") /\ resp["w1"].status = 500
    /\ order = <<>>

GetOps ==
    {"root", "schema_info", "search", "get_brands", "get_categories",
     "list_products", "get_product", "get_reviews", "spares_for", "test_database"}

\* C10: after startup every GET endpoint leaves every collection unchanged, no
\* endpoint changes product, brand, category or sparepart, and the only writes are
\* one insert into review by a successful post_review and one insert into order
\* by a successful checkout.
C10_Frame ==
    [][started =>
          /\ op' \in GetOps => store' = store
          /\ product' = product /\ brand' = brand
          /\ category' = category /\ sparepart' = sparepart
          /\ review' # review =>
                /\ \E w \in Workers :
                      Completes(w, "post_review") /\ resp'[w].status = 200
                /\ Len(review') = Len(review) + 1
                /\ SubSeq(review', 1, Len(review)) = review
                /\ order' = order
          /\ order' # order =>
                /\ \E w \in Workers :
                      Completes(w, "checkout") /\ resp'[w].status = 200
                /\ Len(order') = Len(order) + 1
                /\ SubSeq(order', 1, Len(order)) = order
                /\ review' = review]_vars

\* a review and an order were written, and a GET has just been answered
C10_Witness ==
    /\ IsDone("w1", "get_reviews")
    /\ resp["w1"].total = 3
    /\ Len(review) = 3
    /\ Len(order) = 1

====
